---------------------------- MODULE Spec2Model ----------------------------
(***************************************************************************)
(* XlBridge: the TXT interchange parser (xlbridge/parser.py), the          *)
(* extractor (xlbridge/extractor.py, xlbridge/utils.py) and the injector   *)
(* (xlbridge/injector.py).                                                 *)
(*                                                                         *)
(* Text is a sequence of one-character strings.  A workbook is a function  *)
(* from sheet names to sheets; a sheet has a cell grid, an ordered list of *)
(* drawing shapes and per-cell notes.                                      *)
(***************************************************************************)
EXTENDS Naturals, Sequences, FiniteSets

VARIABLES
    pc,             \* position of the running operation
    f,              \* parse_txt: the raw lines of the open file
    line_num,       \* parse_txt: number of raw lines consumed
    entries,        \* the list of CellEntry built by parse_txt
    s_in,           \* escape round trip: the text of a cell / shape / note
    s_esc,          \* escape round trip: the text as written to the TXT file
    s_back,         \* escape round trip: the text as read back by the parser
    fs,             \* inject: the files, by path
    fs0,            \* inject: the files as they were when inject was called
    io,             \* inject: the file operations performed so far, in order
    output_path,    \* inject: the output_path argument, then the resolved path
    lang,           \* inject: the lang argument
    exc,            \* inject: the exception raised, "" when none
    wb,             \* inject: the workbook loaded from the output file
    idx,            \* inject: number of entries the loop has gone through
    applied,        \* inject: counter
    skipped_sheet,  \* inject: counter
    skipped_shape,  \* inject: counter
    fallback,       \* inject: counter
    value,          \* inject: value picked for the last entry resolved
    used_fallback,  \* inject: used_fallback of the last entry resolved
    sheet_names,    \* extract: the sheet_names argument
    include_shapes, \* extract: the include_shapes argument
    include_notes,  \* extract: the include_notes argument
    sheet_pos,      \* extract: number of names of 'sheets' gone through
    lines,          \* extract: the lines collected so far
    emitted,        \* extract: for each line, what it was emitted for
    total_cells,    \* extract: counter
    total_shapes,   \* extract: counter
    total_notes     \* extract: counter

parseVars == <<f, line_num>>

escVars == <<s_in, s_esc, s_back>>

loopVars == <<wb, idx, applied, skipped_sheet, skipped_shape, fallback, value, used_fallback>>

injVars == <<fs, fs0, io, output_path, lang, exc, loopVars>>

extVars ==
    <<sheet_names, include_shapes, include_notes, sheet_pos, lines, emitted,
      total_cells, total_shapes, total_notes>>

vars == <<pc, entries, parseVars, escVars, injVars, extVars>>

----------------------------------------------------------------------------
(* Bounds of the model                                                     *)

MaxLines == 2
MaxRest == 4
MaxStr == 3
MaxEntries == 2
MaxParas == 2

----------------------------------------------------------------------------
(* Characters                                                              *)

NL == "\n"
CR == "\r"
BS == "\\"

Letters ==
    {"A", "B", "S", "T", "X", "Z", "a", "b", "e", "h", "n", "o", "p", "q",
     "s", "t", "w", "x", "z"}

Digits == {"0", "1", "2", "7"}

Chars == Letters \cup Digits \cup {"[", "]", "!", "|", ":", "#", "?", " ", BS, NL, CR}

Optional(t) == [present |-> TRUE, text |-> t]

None == [present |-> FALSE, text |-> <<>>]

----------------------------------------------------------------------------
(* String helpers, as Python computes them                                 *)

RECURSIVE Flatten(_)
Flatten(ss) ==
    IF ss = <<>> THEN <<>> ELSE Head(ss) \o Flatten(Tail(ss))

\* s[pos:].startswith(p)
StartsWithAt(s, pos, p) ==
    /\ pos + Len(p) - 1 <= Len(s)
    /\ SubSeq(s, pos, pos + Len(p) - 1) = p

\* str.rstrip(c): drop every trailing c
RECURSIVE RStrip(_, _)
RStrip(s, c) ==
    IF Len(s) > 0 /\ s[Len(s)] = c
    THEN RStrip(SubSeq(s, 1, Len(s) - 1), c)
    ELSE s

\* str.find(c) + 1: index of the first c, 0 when there is none
Find(s, c) ==
    IF \E i \in 1..Len(s) : s[i] = c
    THEN CHOOSE i \in 1..Len(s) : s[i] = c /\ \A j \in 1..(i - 1) : s[j] # c
    ELSE 0

\* rest.split('|'): no limit, empty parts kept, always at least one part
RECURSIVE Split(_)
Split(s) ==
    LET i == Find(s, "|")
    IN  IF i = 0
        THEN <<s>>
        ELSE <<SubSeq(s, 1, i - 1)>> \o Split(SubSeq(s, i + 1, Len(s)))

\* s.replace('\\n', '\n'): leftmost, non-overlapping occurrences
RECURSIVE _unescape(_)
_unescape(s) ==
    IF Len(s) = 0 THEN <<>>
    ELSE IF Len(s) >= 2 /\ s[1] = BS /\ s[2] = "n"
         THEN <<NL>> \o _unescape(SubSeq(s, 3, Len(s)))
         ELSE <<s[1]>> \o _unescape(Tail(s))

\* text.replace('\n', '\\n')
RECURSIVE EscapeNewlines(_)
EscapeNewlines(s) ==
    IF Len(s) = 0 THEN <<>>
    ELSE IF s[1] = NL
         THEN <<BS, "n">> \o EscapeNewlines(Tail(s))
         ELSE <<s[1]>> \o EscapeNewlines(Tail(s))

----------------------------------------------------------------------------
(* LINE_PATTERN = ^\[(.+?)\]!(CELL|SHAPE|NOTE)\|(.+)$                      *)

\* index of the last character of the longest run of class cls starting at
\* pos (pos - 1 when the run is empty): a greedy cls*
RECURSIVE RunEnd(_, _, _)
RunEnd(s, pos, cls) ==
    IF pos <= Len(s) /\ s[pos] \in cls THEN RunEnd(s, pos + 1, cls) ELSE pos - 1

ShapePrefix == <<"s", "h", "a", "p", "e", ":">>

NotePrefix == <<"n", "o", "t", "e", ":">>

\* [A-Za-z]+\d+ at pos: index of its last character, 0 when it does not match
\* with a '|' right after it
_CELL_ADDR(s, pos) ==
    LET l == RunEnd(s, pos, Letters)
        d == RunEnd(s, l + 1, Digits)
    IN  IF l >= pos /\ d >= l + 1 /\ d < Len(s) /\ s[d + 1] = "|" THEN d ELSE 0

\* shape:[^|\r\n]+ at pos
_SHAPE_ADDR(s, pos) ==
    IF StartsWithAt(s, pos, ShapePrefix)
    THEN LET b == pos + Len(ShapePrefix)
             d == RunEnd(s, b, Chars \ {"|", CR, NL})
         IN  IF d >= b /\ d < Len(s) /\ s[d + 1] = "|" THEN d ELSE 0
    ELSE 0

\* note:[A-Za-z]+\d+ at pos
_NOTE_ADDR(s, pos) ==
    IF StartsWithAt(s, pos, NotePrefix)
    THEN _CELL_ADDR(s, pos + Len(NotePrefix))
    ELSE 0

\* the alternation, first alternative that lets the rest of the pattern match
AddrEnd(s, pos) ==
    IF _CELL_ADDR(s, pos) # 0 THEN _CELL_ADDR(s, pos)
    ELSE IF _SHAPE_ADDR(s, pos) # 0 THEN _SHAPE_ADDR(s, pos)
    ELSE _NOTE_ADDR(s, pos)

\* the pattern matches with group 1 = s[2 .. k + 1]
MatchesWithSheetLen(s, k) ==
    /\ Len(s) >= k + 3
    /\ s[1] = "["
    /\ \A i \in 2..(k + 1) : s[i] # NL
    /\ s[k + 2] = "]"
    /\ s[k + 3] = "!"
    /\ LET d == AddrEnd(s, k + 4)
       IN  /\ d # 0
           /\ d + 1 < Len(s)
           /\ \A i \in (d + 2)..Len(s) : s[i] # NL

\* LINE_PATTERN.match(line): the lazy (.+?) takes the shortest sheet for which
\* the rest of the pattern matches
LINE_PATTERN(s) ==
    IF \E k \in 1..Len(s) : MatchesWithSheetLen(s, k)
    THEN LET k == CHOOSE k \in 1..Len(s) :
                    /\ MatchesWithSheetLen(s, k)
                    /\ \A j \in 1..(k - 1) : ~MatchesWithSheetLen(s, j)
             d == AddrEnd(s, k + 4)
         IN  [matched |-> TRUE,
              sheet |-> SubSeq(s, 2, k + 1),
              coord |-> SubSeq(s, k + 4, d),
              rest |-> SubSeq(s, d + 2, Len(s))]
    ELSE [matched |-> FALSE, sheet |-> <<>>, coord |-> <<>>, rest |-> <<>>]

----------------------------------------------------------------------------
(* CellEntry                                                               *)

CellEntry(sheet, coord, val, en, vi) ==
    [sheet |-> sheet, coord |-> coord, value |-> val, en |-> en, vi |-> vi]

entry_type(e) ==
    IF StartsWithAt(e.coord, 1, ShapePrefix) THEN "shape"
    ELSE IF StartsWithAt(e.coord, 1, NotePrefix) THEN "note"
    ELSE "cell"

shape_name(e) == SubSeq(e.coord, Len(ShapePrefix) + 1, Len(e.coord))

note_coord(e) == SubSeq(e.coord, Len(NotePrefix) + 1, Len(e.coord))

----------------------------------------------------------------------------
(* parse_txt                                                               *)

\* line = raw_line.rstrip('\n').rstrip('\r')
StripLine(raw_line) == RStrip(RStrip(raw_line, NL), CR)

\* if not line or line.startswith('#'): continue
IsBlankOrComment(line) == line = <<>> \/ line[1] = "#"

\* Column without the emptiness test ('and parts[n]' dropped)
Column_keepEmpty(parts, n) ==
    IF Len(parts) >= n THEN Optional(_unescape(parts[n])) ELSE None

\* the value of one translation column: present only when the column exists
\* and is not empty
Column(parts, n) ==
    IF Len(parts) >= n /\ parts[n] # <<>> THEN Optional(_unescape(parts[n])) ELSE None

\* the entry built from a matched line
EntryOf(line) ==
    LET m == LINE_PATTERN(line)
        parts == Split(m.rest)
    IN  CellEntry(m.sheet, m.coord, _unescape(parts[1]), Column(parts, 2), Column(parts, 3))

\* what one iteration of the loop does with the line it is given
LineOutcome(raw_line) ==
    LET line == StripLine(raw_line)
    IN  IF IsBlankOrComment(line) THEN "skip"
        ELSE IF ~LINE_PATTERN(line).matched THEN "invalid"
        ELSE "entry"

\* the whole of parse_txt, on the raw lines of the file
parse_txt(raw_lines) ==
    LET IsEntry(raw_line) == LineOutcome(raw_line) = "entry"
        kept == SelectSeq(raw_lines, IsEntry)
    IN  [i \in 1..Len(kept) |-> EntryOf(StripLine(kept[i]))]

----------------------------------------------------------------------------
(* The files given to parse_txt                                            *)

Txt_S == <<"S">>

Txt_A1 == <<"A", "1">>

Txt_B2 == <<"B", "2">>

Txt_shapeTB == ShapePrefix \o <<"T", "B">>

Txt_noteA1 == NotePrefix \o Txt_A1

\* '[' sheet ']!' addr '|'
LineHead(sheet, addr) == <<"[">> \o sheet \o <<"]", "!">> \o addr \o <<"|">>

\* the start of a line: a comment mark, nothing, or a sheet and an address,
\* well-formed or not
LineStarts ==
    {<<>>, <<"#">>, <<"[">> \o Txt_S \o <<"]", "!">> \o Txt_A1}
    \cup {LineHead(sh, a) :
            sh \in {Txt_S, <<"a", "]", "b">>, <<>>},
            a \in {Txt_A1, Txt_shapeTB, Txt_noteA1, <<"A">>, NotePrefix \o <<"1">>}}

\* what follows: up to MaxRest pieces of column text and separators
RestPieces == {<<"|">>, <<"x">>, <<BS, "n">>}

RestsOfLen(n) == {Flatten(ps) : ps \in [1..n -> RestPieces]}

Rests == UNION {RestsOfLen(n) : n \in 0..MaxRest}

RichLines == {st \o r : st \in LineStarts, r \in Rests}

\* a few whole lines, for files of several lines
FewLines ==
    {<<>>,
     <<"#", "x">>,
     <<"b", "a", "!">>,
     LineHead(Txt_S, Txt_A1) \o <<"o">>,
     LineHead(Txt_S, Txt_B2) \o <<"p", "|", "e", "|", "w">>}

FilesOfLen(n, among) == {[i \in 1..n |-> fl[i] \o <<NL>>] : fl \in [1..n -> among]}

ParseFiles ==
    FilesOfLen(1, RichLines) \cup UNION {FilesOfLen(n, FewLines) : n \in 0..MaxLines}

----------------------------------------------------------------------------
(* parse_txt, one line at a time                                           *)

\* AfterInvalid with 'break' in place of 'continue'
AfterInvalid_break(n, len) == len

\* 'continue' after an invalid line: on to the next line
AfterInvalid(n, len) == n + 1

EscIdle == s_in = <<>> /\ s_esc = <<>> /\ s_back = <<>>

ExtIdle ==
    /\ sheet_names = None /\ include_shapes = TRUE /\ include_notes = TRUE
    /\ sheet_pos = 0 /\ lines = <<>> /\ emitted = <<>>
    /\ total_cells = 0 /\ total_shapes = 0 /\ total_notes = 0

InjIdle ==
    /\ fs = <<>> /\ fs0 = <<>> /\ io = <<>>
    /\ output_path = None /\ lang = None /\ exc = ""
    /\ wb = <<>> /\ idx = 0
    /\ applied = 0 /\ skipped_sheet = 0 /\ skipped_shape = 0 /\ fallback = 0
    /\ value = <<>> /\ used_fallback = FALSE

ParseInit ==
    /\ pc = "parse"
    /\ f \in ParseFiles
    /\ line_num = 0
    /\ entries = <<>>
    /\ EscIdle
    /\ ExtIdle
    /\ InjIdle

ParseSkip ==
    /\ pc = "parse"
    /\ line_num < Len(f)
    /\ LineOutcome(f[line_num + 1]) = "skip"
    /\ line_num' = line_num + 1
    /\ UNCHANGED <<pc, f, entries, escVars, extVars, injVars>>

ParseInvalid ==
    /\ pc = "parse"
    /\ line_num < Len(f)
    /\ LineOutcome(f[line_num + 1]) = "invalid"
    /\ line_num' = AfterInvalid(line_num, Len(f))
    /\ UNCHANGED <<pc, f, entries, escVars, extVars, injVars>>

ParseEntry ==
    /\ pc = "parse"
    /\ line_num < Len(f)
    /\ LineOutcome(f[line_num + 1]) = "entry"
    /\ entries' = Append(entries, EntryOf(StripLine(f[line_num + 1])))
    /\ line_num' = line_num + 1
    /\ UNCHANGED <<pc, f, escVars, extVars, injVars>>

ParseReturn ==
    /\ pc = "parse"
    /\ line_num = Len(f)
    /\ pc' = "parsed"
    /\ UNCHANGED <<f, line_num, entries, escVars, extVars, injVars>>

ParseNext == ParseSkip \/ ParseInvalid \/ ParseEntry \/ ParseReturn

SpecParse == ParseInit /\ [][ParseNext]_vars

----------------------------------------------------------------------------
(* The data-line grammar, stated on the text of a line                     *)

IsCellAddr(a) ==
    \E j \in 1..(Len(a) - 1) :
        /\ \A i \in 1..j : a[i] \in Letters
        /\ \A i \in (j + 1)..Len(a) : a[i] \in Digits

IsShapeAddr(a) ==
    /\ Len(a) > 6
    /\ SubSeq(a, 1, 6) = <<"s", "h", "a", "p", "e", ":">>
    /\ \A i \in 7..Len(a) : a[i] \notin {"|", CR, NL}

IsNoteAddr(a) ==
    /\ Len(a) > 5
    /\ SubSeq(a, 1, 5) = <<"n", "o", "t", "e", ":">>
    /\ IsCellAddr(SubSeq(a, 6, Len(a)))

\* [<sheet>]!<address>|<rest>, sheet and rest not empty
IsDataLine(line) ==
    \E i \in 3..Len(line), p \in 1..(Len(line) - 1) :
        /\ line[1] = "["
        /\ line[i] = "]"
        /\ line[i + 1] = "!"
        /\ p > i + 1
        /\ line[p] = "|"
        /\ LET a == SubSeq(line, i + 2, p - 1)
           IN  IsCellAddr(a) \/ IsShapeAddr(a) \/ IsNoteAddr(a)

\* a raw line without its line terminator
LineText(raw) == SubSeq(raw, 1, Len(raw) - 1)

IsRawDataLine(raw) == IsDataLine(LineText(raw))

\* the data lines among the raw lines read so far, in file order
DataLinesRead == SelectSeq(SubSeq(f, 1, line_num), IsRawDataLine)

(* C8: parse_txt returns exactly one Entry for each line that matches the  *)
(* data-line grammar, in file order (the i-th Entry carries the sheet and  *)
(* the address the i-th data line starts with); blank lines, comment lines *)
(* and lines outside the grammar give no Entry, and the loop goes on to    *)
(* the end of the file whatever it meets.                                  *)
C8_OneEntryPerDataLine ==
    pc \in {"parse", "parsed"} =>
        /\ Len(entries) = Len(DataLinesRead)
        /\ \A i \in 1..Len(entries) :
              StartsWithAt(LineText(DataLinesRead[i]), 1,
                           LineHead(entries[i].sheet, entries[i].coord))
        /\ pc = "parsed" => line_num = Len(f)

\* an invalid line, a comment and then a data line: the data line is parsed
C8_Witness ==
    /\ pc = "parsed"
    /\ Len(f) = 2
    /\ LineText(f[1]) = <<"b", "a", "!">>
    /\ ~IsRawDataLine(f[1])
    /\ Len(entries) = 1
    /\ entries[1].coord = <<"A", "1">>

\* the positions of the column separators of the line entry i came from
SeparatorsAfterAddress(i) ==
    LET line == LineText(DataLinesRead[i])
        p0 == Len(entries[i].sheet) + Len(entries[i].coord) + 4
    IN  {p \in (p0 + 1)..Len(line) : line[p] = "|"}

\* the n-th separator after the address is there and a column character
\* follows it
ColumnNonEmpty(i, n) ==
    LET line == LineText(DataLinesRead[i])
        seps == SeparatorsAfterAddress(i)
    IN  \E p \in seps :
            /\ Cardinality({q \in seps : q < p}) = n - 1
            /\ p < Len(line)
            /\ line[p + 1] # "|"

(* C9: for every accepted line, english_text is present exactly when the   *)
(* line has a second column that is not empty, vietnamese_text exactly     *)
(* when it has a third column that is not empty, each independently of the *)
(* other; a present value is never the empty string.                       *)
C9_ColumnsPresentIffNonEmpty ==
    (pc \in {"parse", "parsed"} /\ Len(entries) = Len(DataLinesRead)) =>
        \A i \in 1..Len(entries) :
            /\ entries[i].en.present <=> ColumnNonEmpty(i, 1)
            /\ entries[i].vi.present <=> ColumnNonEmpty(i, 2)
            /\ entries[i].en.present => entries[i].en.text # <<>>
            /\ entries[i].vi.present => entries[i].vi.text # <<>>
            /\ SeparatorsAfterAddress(i) = {} =>
                   ~entries[i].en.present /\ ~entries[i].vi.present

\* [S]!A1|x||x : an empty second column and a third column
C9_Witness ==
    /\ pc = "parsed"
    /\ Len(entries) = 1
    /\ LineText(f[1]) = LineHead(Txt_S, Txt_A1) \o <<"x", "|", "|", "x">>
    /\ entries[1].value = <<"x">>
    /\ ~entries[1].en.present
    /\ entries[1].vi = Optional(<<"x">>)

----------------------------------------------------------------------------
(* Escaping on extraction, un-escaping on parsing                          *)

\* the characters of the texts tried: a newline, a backslash, the letter n
\* and another letter
TextChars == {NL, BS, "n", "x"}

Texts == UNION {[1..n -> TextChars] : n \in 0..MaxStr}

ParseIdle == f = <<>> /\ line_num = 0 /\ entries = <<>>

EscInit ==
    /\ pc = "text"
    /\ s_in \in Texts
    /\ s_esc = <<>>
    /\ s_back = <<>>
    /\ ParseIdle
    /\ InjIdle
    /\ ExtIdle

\* the extractor writes the value: value = text.replace('\n', '\\n')
EscWrite ==
    /\ pc = "text"
    /\ s_esc' = EscapeNewlines(s_in)
    /\ pc' = "written"
    /\ UNCHANGED <<s_in, s_back, f, line_num, entries, injVars, extVars>>

\* the parser reads the column back: _unescape(parts[0])
EscRead ==
    /\ pc = "written"
    /\ s_back' = _unescape(s_esc)
    /\ pc' = "read"
    /\ UNCHANGED <<s_in, s_esc, f, line_num, entries, injVars, extVars>>

EscNext == EscWrite \/ EscRead

SpecEsc == EscInit /\ [][EscNext]_vars

HasNewline(s) == \E i \in 1..Len(s) : s[i] = NL

(* C10: for every string containing embedded newlines, escaping it as the  *)
(* extractor does and then un-escaping it as the parser does returns the   *)
(* original string.                                                        *)
C10_RoundTrip ==
    (pc = "read" /\ HasNewline(s_in)) => s_back = s_in

----------------------------------------------------------------------------
(* The workbook, as the spreadsheet library exposes it                     *)

\* a cell: its value (None when empty), its formatting, its comment
Cell(v, style, comment) == [value |-> v, style |-> style, comment |-> comment]

Comment(text, author) == [present |-> TRUE, text |-> text, author |-> author]

NoComment == [present |-> FALSE, text |-> <<>>, author |-> <<>>]

\* the cell the library creates when a coordinate is first touched
EmptyCell == Cell(None, "default", NoComment)

\* <a:r>: its run properties and its <a:t> text (None when it has no <a:t>)
Run(rPr, t) == [rPr |-> rPr, t |-> t]

\* <xdr:txBody>: its <a:p> paragraphs, each the list of its runs
TxBody(paras) == [present |-> TRUE, paras |-> paras]

NoTxBody == [present |-> FALSE, paras |-> <<>>]

\* <xdr:sp>: cNvPr name (None when not set), cNvPr id, text body
Shape(name, id, txBody) == [name |-> name, id |-> id, txBody |-> txBody]

Sheet(cells, drawings) == [cells |-> cells, drawings |-> drawings]

\* ws[coord]
GetCell(ws, coord) ==
    IF coord \in DOMAIN ws.cells THEN ws.cells[coord] ELSE EmptyCell

PutCell(ws, coord, c) ==
    [ws EXCEPT !.cells =
        [x \in (DOMAIN ws.cells) \cup {coord} |-> IF x = coord THEN c ELSE ws.cells[x]]]

\* the text of a shape as the extractor reads it: every <a:t>, joined
ParaText(runs) == Flatten([r \in 1..Len(runs) |-> runs[r].t.text])

ShapeText(sp) == Flatten([p \in 1..Len(sp.txBody.paras) |-> ParaText(sp.txBody.paras[p])])

----------------------------------------------------------------------------
(* _pick_value                                                             *)

Lang_en == <<"e", "n">>

Lang_vi == <<"v", "i">>

SUPPORTED_LANGS == {Lang_en, Lang_vi}

\* _pick_value with the Vietnamese fallback not reported
_pick_value_silent(e, lg) ==
    IF lg = Optional(Lang_en)
    THEN IF e.en.present THEN <<e.en.text, FALSE>> ELSE <<e.value, TRUE>>
    ELSE IF lg = Optional(Lang_vi)
    THEN IF e.vi.present THEN <<e.vi.text, FALSE>> ELSE <<e.value, FALSE>>
    ELSE <<e.value, FALSE>>

\* _pick_value reading the English column for both languages
_pick_value_en_only(e, lg) ==
    IF lg = Optional(Lang_en) \/ lg = Optional(Lang_vi)
    THEN IF e.en.present THEN <<e.en.text, FALSE>> ELSE <<e.value, TRUE>>
    ELSE <<e.value, FALSE>>

\* (value, used_fallback)
_pick_value(e, lg) ==
    IF lg = Optional(Lang_en)
    THEN IF e.en.present THEN <<e.en.text, FALSE>> ELSE <<e.value, TRUE>>
    ELSE IF lg = Optional(Lang_vi)
    THEN IF e.vi.present THEN <<e.vi.text, FALSE>> ELSE <<e.value, TRUE>>
    ELSE <<e.value, FALSE>>

----------------------------------------------------------------------------
(* _inject_shape, _inject_note, the cell write                             *)

HasRuns(paras) == \E p \in 1..Len(paras) : Len(paras[p]) > 0

\* the paragraph of all_runs[0]
FirstRunPara(paras) ==
    CHOOSE p \in 1..Len(paras) :
        Len(paras[p]) > 0 /\ \A q \in 1..(p - 1) : Len(paras[q]) = 0

\* the text body after lines 97-109: the first run takes the text when it has
\* an <a:t>, every other run is removed from its paragraph, and every
\* paragraph after the first is removed
CollapseTxBody(paras, v) ==
    LET p0 == FirstRunPara(paras)
        r0 == paras[p0][1]
        first == IF r0.t.present THEN [r0 EXCEPT !.t = Optional(v)] ELSE r0
        pruned == [p \in 1..Len(paras) |-> IF p = p0 THEN <<first>> ELSE <<>>]
    IN  <<pruned[1]>>

\* the shapes _inject_shape does not 'continue' past
ShapeTakes(sp, name) ==
    /\ sp.name.present
    /\ sp.name.text = name
    /\ sp.txBody.present
    /\ HasRuns(sp.txBody.paras)

_inject_shape(ws, name, v) ==
    IF \E k \in 1..Len(ws.drawings) : ShapeTakes(ws.drawings[k], name)
    THEN LET k == CHOOSE k \in 1..Len(ws.drawings) :
                    /\ ShapeTakes(ws.drawings[k], name)
                    /\ \A j \in 1..(k - 1) : ~ShapeTakes(ws.drawings[j], name)
         IN  [found |-> TRUE,
              ws |-> [ws EXCEPT !.drawings[k].txBody.paras =
                          CollapseTxBody(ws.drawings[k].txBody.paras, v)]]
    ELSE [found |-> FALSE, ws |-> ws]

_inject_note(ws, coord, v) ==
    LET cell == GetCell(ws, coord)
        author == IF cell.comment.present THEN cell.comment.author ELSE <<>>
    IN  PutCell(ws, coord, [cell EXCEPT !.comment = Comment(v, author)])

\* the cell write replacing the cell by a new one
CellWrite_newCell(ws, coord, v) ==
    PutCell(ws, coord, [EmptyCell EXCEPT !.value = Optional(v)])

\* ws[entry.coord] = value
CellWrite(ws, coord, v) ==
    PutCell(ws, coord, [GetCell(ws, coord) EXCEPT !.value = Optional(v)])

----------------------------------------------------------------------------
(* inject: the body of the loop over the entries                           *)

\* the loop's variables as one record
Locals ==
    [wb |-> wb, applied |-> applied, skipped_sheet |-> skipped_sheet,
     skipped_shape |-> skipped_shape, fallback |-> fallback,
     value |-> value, used_fallback |-> used_fallback]

\* lines 191-213: the sheet is in the workbook
ApplyEntry(st, e, lg) ==
    LET pv == _pick_value(e, lg)
        ws == st.wb[e.sheet]
        st1 == [st EXCEPT !.value = pv[1], !.used_fallback = pv[2],
                          !.fallback = IF pv[2] THEN @ + 1 ELSE @]
    IN  IF entry_type(e) = "cell"
        THEN [st1 EXCEPT !.wb[e.sheet] = CellWrite(ws, e.coord, pv[1]),
                         !.applied = @ + 1]
        ELSE IF entry_type(e) = "shape"
        THEN LET r == _inject_shape(ws, shape_name(e), pv[1])
             IN  IF r.found
                 THEN [st1 EXCEPT !.wb[e.sheet] = r.ws, !.applied = @ + 1]
                 ELSE [st1 EXCEPT !.skipped_shape = @ + 1]
        ELSE [st1 EXCEPT !.wb[e.sheet] = _inject_note(ws, note_coord(e), pv[1]),
                         !.applied = @ + 1]

\* the loop body resolving the value before it looks for the sheet
LoopBody_pickFirst(st, e, lg) ==
    IF e.sheet \notin DOMAIN st.wb
    THEN LET pv == _pick_value(e, lg)
         IN  [st EXCEPT !.skipped_sheet = @ + 1,
                        !.value = pv[1], !.used_fallback = pv[2],
                        !.fallback = IF pv[2] THEN @ + 1 ELSE @]
    ELSE ApplyEntry(st, e, lg)

\* one iteration: lines 183-213
LoopBody(st, e, lg) ==
    IF e.sheet \notin DOMAIN st.wb
    THEN [st EXCEPT !.skipped_sheet = @ + 1]
    ELSE ApplyEntry(st, e, lg)

----------------------------------------------------------------------------
(* inject: paths and files                                                 *)

\* a path: <<stem, suffix>>
input_path == <<<<"b", "o", "o", "k">>, <<".", "x", "l", "s", "x">>>>

translation_path == <<<<"t", "r">>, <<".", "t", "x", "t">>>>

ExplicitOutput == <<<<"o", "u", "t">>, <<".", "x", "l", "s", "x">>>>

\* p.with_name(f'{p.stem}{suffix}{p.suffix}'), suffix = f'_{lang}' if lang
\* else '_translated'
DefaultOutput(p, lg) ==
    <<p[1] \o (IF lg.present /\ lg.text # <<>>
               THEN <<"_">> \o lg.text
               ELSE <<"_", "t", "r", "a", "n", "s", "l", "a", "t", "e", "d">>),
      p[2]>>

AbsentFile == [kind |-> "absent", wb |-> <<>>, lines |-> <<>>]

\* a file cut short by a failed write
PartialFile == [kind |-> "partial", wb |-> <<>>, lines |-> <<>>]

XlsxFile(w) == [kind |-> "xlsx", wb |-> w, lines |-> <<>>]

TxtFile(raw_lines) == [kind |-> "txt", wb |-> <<>>, lines |-> raw_lines]

\* copy2 without the same-file test: the destination is opened for writing,
\* which empties it, before the source is read
copy2_noSameFileTest(files, src, dst) ==
    IF files[src].kind = "absent"
    THEN [exc |-> "FileNotFoundError", fs |-> files]
    ELSE IF src = dst
    THEN [exc |-> "", fs |-> [files EXCEPT ![dst] = PartialFile]]
    ELSE [exc |-> "", fs |-> [files EXCEPT ![dst] = files[src]]]

\* shutil.copy2(src, dst)
copy2(files, src, dst) ==
    IF src = dst /\ files[src].kind # "absent"
    THEN [exc |-> "SameFileError", fs |-> files]
    ELSE IF files[src].kind = "absent"
    THEN [exc |-> "FileNotFoundError", fs |-> files]
    ELSE [exc |-> "", fs |-> [files EXCEPT ![dst] = files[src]]]

\* the language test written 'if lang and lang not in SUPPORTED_LANGS'
Unsupported_truthy(lg) ==
    lg.present /\ lg.text # <<>> /\ lg.text \notin SUPPORTED_LANGS

\* lang is not None and lang not in SUPPORTED_LANGS
Unsupported(lg) == lg.present /\ lg.text \notin SUPPORTED_LANGS

----------------------------------------------------------------------------
(* inject: the steps                                                       *)

SetLocals(st) ==
    /\ wb' = st.wb
    /\ applied' = st.applied
    /\ skipped_sheet' = st.skipped_sheet
    /\ skipped_shape' = st.skipped_shape
    /\ fallback' = st.fallback
    /\ value' = st.value
    /\ used_fallback' = st.used_fallback

Raise(e) == pc' = "raised" /\ exc' = e

\* lines 158-167: the language test, then the default output path
InjValidate ==
    /\ pc = "start"
    /\ IF Unsupported(lang)
       THEN Raise("ValueError") /\ UNCHANGED output_path
       ELSE /\ pc' = "copy"
            /\ output_path' = IF output_path.present
                              THEN output_path
                              ELSE Optional(DefaultOutput(input_path, lang))
            /\ UNCHANGED exc
    /\ UNCHANGED <<entries, parseVars, escVars, extVars, fs, fs0, io, lang, loopVars>>

\* line 170
InjCopy ==
    /\ pc = "copy"
    /\ LET r == copy2(fs, input_path, output_path.text)
       IN  IF r.exc = ""
           THEN /\ fs' = r.fs
                /\ io' = io \o <<<<"read", input_path>>, <<"write", output_path.text>>>>
                /\ pc' = "parse"
                /\ UNCHANGED exc
           ELSE Raise(r.exc) /\ UNCHANGED <<fs, io>>
    /\ UNCHANGED <<entries, parseVars, escVars, extVars, fs0, output_path, lang, loopVars>>

\* line 172
InjParse ==
    /\ pc = "parse"
    /\ IF fs[translation_path].kind = "txt"
       THEN /\ entries' = parse_txt(fs[translation_path].lines)
            /\ io' = Append(io, <<"read", translation_path>>)
            /\ pc' = "load"
            /\ UNCHANGED exc
       ELSE Raise("FileNotFoundError") /\ UNCHANGED <<entries, io>>
    /\ UNCHANGED <<parseVars, escVars, extVars, fs, fs0, output_path, lang, loopVars>>

\* lines 173-180
InjLoad ==
    /\ pc = "load"
    /\ IF fs[output_path.text].kind = "xlsx"
       THEN /\ wb' = fs[output_path.text].wb
            /\ io' = Append(io, <<"read", output_path.text>>)
            /\ pc' = "loop"
            /\ UNCHANGED exc
       ELSE Raise("BadZipFile") /\ UNCHANGED <<wb, io>>
    /\ idx' = 0
    /\ applied' = 0 /\ skipped_sheet' = 0 /\ skipped_shape' = 0 /\ fallback' = 0
    /\ UNCHANGED <<entries, parseVars, escVars, extVars, fs, fs0, output_path, lang,
                   value, used_fallback>>

InLoop == pc = "loop" /\ idx < Len(entries)

LoopStep ==
    /\ SetLocals(LoopBody(Locals, entries[idx + 1], lang))
    /\ idx' = idx + 1
    /\ UNCHANGED <<pc, entries, parseVars, escVars, extVars, fs, fs0, io, output_path, lang, exc>>

\* lines 183-189
InjSkipSheet ==
    /\ InLoop
    /\ entries[idx + 1].sheet \notin DOMAIN wb
    /\ LoopStep

\* lines 197-199
InjCell ==
    /\ InLoop
    /\ entries[idx + 1].sheet \in DOMAIN wb
    /\ entry_type(entries[idx + 1]) = "cell"
    /\ LoopStep

\* line 198, the library refusing the write (a read-only merged cell, a
\* value it does not accept): the exception leaves inject
InjCellRaises ==
    /\ InLoop
    /\ entries[idx + 1].sheet \in DOMAIN wb
    /\ entry_type(entries[idx + 1]) = "cell"
    /\ Raise("WriteError")
    /\ UNCHANGED <<entries, parseVars, escVars, extVars, fs, fs0, io, output_path, lang, loopVars>>

\* lines 201-209
InjShape ==
    /\ InLoop
    /\ entries[idx + 1].sheet \in DOMAIN wb
    /\ entry_type(entries[idx + 1]) = "shape"
    /\ LoopStep

\* lines 211-213
InjNote ==
    /\ InLoop
    /\ entries[idx + 1].sheet \in DOMAIN wb
    /\ entry_type(entries[idx + 1]) = "note"
    /\ LoopStep

\* lines 215-224
InjSave ==
    /\ pc = "loop"
    /\ idx = Len(entries)
    /\ fs' = [fs EXCEPT ![output_path.text] = XlsxFile(wb)]
    /\ io' = Append(io, <<"write", output_path.text>>)
    /\ pc' = "done"
    /\ UNCHANGED <<entries, parseVars, escVars, extVars, fs0, output_path, lang, exc, loopVars>>

\* the operating system failing a file operation: the copy (line 170) and the
\* save (line 215) may leave the output file cut short, the reads of lines
\* 172 and 175 change nothing
InjOSError ==
    /\ \/ /\ pc = "copy" \/ (pc = "loop" /\ idx = Len(entries))
          /\ output_path.text # input_path
          /\ \E cut \in BOOLEAN :
                fs' = IF cut THEN [fs EXCEPT ![output_path.text] = PartialFile] ELSE fs
       \/ /\ pc \in {"parse", "load"}
          /\ UNCHANGED fs
    /\ Raise("OSError")
    /\ UNCHANGED <<entries, parseVars, escVars, extVars, fs0, io, output_path, lang, loopVars>>

InjNext ==
    \/ InjValidate \/ InjCopy \/ InjParse \/ InjLoad
    \/ InjSkipSheet \/ InjCell \/ InjCellRaises \/ InjShape \/ InjNote
    \/ InjSave \/ InjOSError

----------------------------------------------------------------------------
(* inject: the calls tried                                                 *)

Txt_T == <<"T">>

Txt_X == <<"X">>

Txt_B1 == <<"B", "1">>

Txt_TB == <<"T", "B">>

\* a workbook with two sheets; S has formatted cells, a comment with an
\* author and a text box of two paragraphs
DocA ==
    [sh \in {Txt_S, Txt_T} |->
        IF sh = Txt_S
        THEN Sheet([c \in {Txt_A1, Txt_B1} |->
                       IF c = Txt_A1
                       THEN Cell(Optional(<<"a">>), "bold14", Comment(<<"n">>, <<"z">>))
                       ELSE Cell(Optional(<<"b">>), "plain", NoComment)],
                   <<Shape(Optional(Txt_TB), <<"2">>,
                           TxBody(<<<<Run("r1", Optional(<<"h">>)),
                                      Run("r2", Optional(<<"h">>))>>,
                                    <<Run("r3", Optional(<<"h">>))>>>>))>>)
        ELSE Sheet([c \in {Txt_A1} |-> Cell(Optional(<<"t">>), "plain", NoComment)], <<>>)]

\* the columns of a line: original only, with English, with Vietnamese only
ColumnTexts == {<<"o">>, <<"p", "|", "e">>, <<"q", "|", "|", "w">>}

\* the lines of the translation files tried with DocA
FlowLines ==
    {LineHead(sh, a) \o c :
        sh \in {Txt_S, Txt_X}, a \in {Txt_A1, Txt_shapeTB, Txt_noteA1}, c \in ColumnTexts}

\* the lines for cell A1 of sheet S, for the calls with an explicit output
CellLines == {LineHead(Txt_S, Txt_A1) \o c : c \in ColumnTexts}

\* the paragraphs of the text bodies tried: for each run, whether it has an
\* <a:t>
ParaKinds == {<<>>, <<TRUE>>, <<FALSE>>, <<TRUE, TRUE>>, <<FALSE, TRUE>>}

\* the text body with these paragraphs; a run's properties name its place
BodyOf(kinds) ==
    TxBody([p \in 1..Len(kinds) |->
               [r \in 1..Len(kinds[p]) |->
                   Run(<<p, r>>, IF kinds[p][r] THEN Optional(<<"h">>) ELSE None)]])

Bodies ==
    {NoTxBody} \cup {BodyOf(k) : k \in UNION {[1..n -> ParaKinds] : n \in 0..MaxParas}}

\* a workbook whose sheet S has a named shape with text body b and an
\* unnamed shape
DocB(b) ==
    [sh \in {Txt_S} |->
        Sheet([c \in {Txt_A1} |-> Cell(Optional(<<"a">>), "plain", NoComment)],
              <<Shape(Optional(Txt_TB), <<"1">>, b),
                Shape(None, <<"7">>, BodyOf(<<<<TRUE>>>>))>>)]

\* the lines of the translation files tried with DocB
ShapeLines ==
    {LineHead(Txt_S, Txt_shapeTB) \o <<"o">>,
     LineHead(Txt_S, Txt_shapeTB) \o <<"p", "|", "e">>,
     LineHead(Txt_S, ShapePrefix \o <<"Z", "z">>) \o <<"p", "|", "e">>,
     LineHead(Txt_S, ShapePrefix \o <<"7">>) \o <<"q", "|", "|", "w">>}

TxtFiles(among) == {TxtFile(fl) : fl \in UNION {FilesOfLen(n, among) : n \in 0..MaxEntries}}

\* the lang arguments: None, the two supported, an unsupported one, ''
LangArgs ==
    {None, Optional(Lang_en), Optional(Lang_vi), Optional(<<"j", "a">>), Optional(<<>>)}

\* the output_path arguments: None, a new file, the input file itself
OutputArgs == {None, Optional(ExplicitOutput), Optional(input_path)}

Paths ==
    {input_path, translation_path, ExplicitOutput}
    \cup {DefaultOutput(input_path, lg) : lg \in LangArgs}

FilesAtCall(doc, txt) ==
    [p \in Paths |->
        IF p = input_path THEN XlsxFile(doc)
        ELSE IF p = translation_path THEN txt
        ELSE AbsentFile]

InjInit ==
    /\ pc = "start"
    /\ \/ /\ fs \in {FilesAtCall(DocA, t) : t \in TxtFiles(FlowLines) \cup {AbsentFile}}
          /\ lang \in LangArgs
          /\ output_path = None
       \/ /\ fs \in {FilesAtCall(DocA, t) : t \in TxtFiles(CellLines) \cup {AbsentFile}}
          /\ lang \in LangArgs
          /\ output_path \in OutputArgs \ {None}
       \/ /\ fs \in {FilesAtCall(DocB(b), t) : b \in Bodies, t \in TxtFiles(ShapeLines)}
          /\ lang \in {None, Optional(Lang_en)}
          /\ output_path = None
    /\ fs0 = fs
    /\ io = <<>>
    /\ exc = ""
    /\ entries = <<>>
    /\ wb = <<>>
    /\ idx = 0
    /\ applied = 0 /\ skipped_sheet = 0 /\ skipped_shape = 0 /\ fallback = 0
    /\ value = <<>> /\ used_fallback = FALSE
    /\ f = <<>> /\ line_num = 0
    /\ EscIdle
    /\ ExtIdle

SpecInject == InjInit /\ [][InjNext]_vars

----------------------------------------------------------------------------
(* Claims about inject                                                     *)

\* the document at input_path when inject was called, and the output document
Original == fs0[input_path].wb

Output == fs[output_path.text].wb

(* C1: whatever the arguments, and whether inject succeeds or fails at any *)
(* step, the document at input_path holds the content it had before the   *)
(* call, also when output_path is input_path.                              *)
C1_OriginalUntouched ==
    pc \in {"start", "copy", "parse", "load", "loop", "done", "raised"} =>
        fs[input_path] = fs0[input_path]

\* inject called with output_path = input_path has ended, by SameFileError
C1_Witness ==
    /\ pc = "raised"
    /\ exc = "SameFileError"
    /\ output_path = Optional(input_path)
    /\ fs[input_path] = XlsxFile(DocA)

\* entry e is a cell entry for cell c of sheet sh
AddressesCell(e, sh, c) == entry_type(e) = "cell" /\ e.sheet = sh /\ e.coord = c

\* what a cell write may change of the workbook: the value of cell c of sheet
\* sh and nothing else
OnlyValueChanged(w1, w2, sh, c) ==
    /\ DOMAIN w2 = DOMAIN w1
    /\ \A s \in DOMAIN w1 :
          /\ w2[s].drawings = w1[s].drawings
          /\ DOMAIN w2[s].cells = (DOMAIN w1[s].cells) \cup (IF s = sh THEN {c} ELSE {})
          /\ \A x \in DOMAIN w2[s].cells :
                /\ w2[s].cells[x].style = GetCell(w1[s], x).style
                /\ w2[s].cells[x].comment = GetCell(w1[s], x).comment
                /\ (s # sh \/ x # c) => w2[s].cells[x].value = GetCell(w1[s], x).value

\* a step of the loop that applies a cell entry
CellEntryStep ==
    /\ pc = "loop" /\ pc' = "loop" /\ idx' = idx + 1
    /\ entries[idx'].sheet \in DOMAIN wb
    /\ entry_type(entries[idx']) = "cell"

\* in the output document every cell keeps its formatting, and every cell no
\* cell entry addresses keeps its value
UnaddressedCellsKept ==
    pc = "done" =>
        \A sh \in DOMAIN Original : \A c \in DOMAIN Original[sh].cells :
            /\ Output[sh].cells[c].style = Original[sh].cells[c].style
            /\ (\A i \in 1..Len(entries) : ~AddressesCell(entries[i], sh, c)) =>
                   Output[sh].cells[c].value = Original[sh].cells[c].value

(* C2: applying a cell entry changes only the value of the addressed cell  *)
(* of the addressed sheet, its formatting stays, and after injection every *)
(* cell that no entry addresses holds the value of the original document.  *)
C2_CellWriteFrame ==
    /\ [][CellEntryStep =>
            /\ OnlyValueChanged(wb, wb', entries[idx'].sheet, entries[idx'].coord)
            /\ wb'[entries[idx'].sheet].cells[entries[idx'].coord].value = Optional(value')]_vars
    /\ [](UnaddressedCellsKept)

\* an injection that wrote A1 of sheet S: A1 keeps its bold format and its
\* comment, B1 and sheet T keep their values
C2_Witness ==
    /\ pc = "done"
    /\ \E i \in 1..Len(entries) : AddressesCell(entries[i], Txt_S, Txt_A1)
    /\ Output[Txt_S].cells[Txt_A1].value = Optional(<<"o">>)
    /\ Output[Txt_S].cells[Txt_A1].style = "bold14"
    /\ Output[Txt_S].cells[Txt_B1] = DocA[Txt_S].cells[Txt_B1]
    /\ Output[Txt_T] = DocA[Txt_T]

(* C3: for every requested language other than absent, 'en' or 'vi',      *)
(* inject fails with an error before the copy, the parse and the load: no  *)
(* file has been read, created or modified when the error is raised.       *)
C3_UnsupportedLangRaisesFirst ==
    (pc \in {"copy", "parse", "load", "loop", "done", "raised"}
       /\ lang.present /\ lang.text # Lang_en /\ lang.text # Lang_vi) =>
        /\ pc = "raised"
        /\ exc = "ValueError"
        /\ io = <<>>
        /\ fs = fs0

\* inject called with lang='' has raised
C3_Witness ==
    /\ pc = "raised"
    /\ exc = "ValueError"
    /\ lang = Optional(<<>>)
    /\ io = <<>>

\* the entry the loop resolved last had its sheet in the workbook
LastResolved ==
    /\ pc \in {"loop", "done", "raised"}
    /\ idx >= 1
    /\ entries[idx].sheet \in DOMAIN wb

(* C4: the value selector returns (original_text, false) with no language; *)
(* with english (english_text, false) when english_text is present and     *)
(* (original_text, true) otherwise; with vietnamese the same against       *)
(* vietnamese_text.  It never returns an absent value.                     *)
C4_PickValue ==
    LastResolved =>
        LET e == entries[idx]
        IN  /\ lang = None => value = e.value /\ ~used_fallback
            /\ lang = Optional(Lang_en) =>
                  IF e.en.present
                  THEN value = e.en.text /\ ~used_fallback
                  ELSE value = e.value /\ used_fallback
            /\ lang = Optional(Lang_vi) =>
                  IF e.vi.present
                  THEN value = e.vi.text /\ ~used_fallback
                  ELSE value = e.value /\ used_fallback
            /\ value \in Seq(Chars)

\* vietnamese requested for an entry with an English column only
C4_Witness ==
    /\ LastResolved
    /\ lang = Optional(Lang_vi)
    /\ entries[idx].en.present
    /\ ~entries[idx].vi.present
    /\ value = entries[idx].value
    /\ used_fallback

\* the loop's variables when the loop starts
LoopStart ==
    [wb |-> Original, applied |-> 0, skipped_sheet |-> 0, skipped_shape |-> 0,
     fallback |-> 0, value |-> <<>>, used_fallback |-> FALSE]

\* the loop run over a list of entries
RECURSIVE RunLoop(_, _, _)
RunLoop(st, es, lg) ==
    IF es = <<>> THEN st ELSE RunLoop(LoopBody(st, Head(es), lg), Tail(es), lg)

SheetInWorkbook(e) == e.sheet \in DOMAIN Original

\* the entries gone through so far, and those of them whose sheet exists
EntriesDone == SubSeq(entries, 1, idx)

EntriesDoneWithSheet == SelectSeq(EntriesDone, SheetInWorkbook)

(* C5: an entry whose sheet is absent from the document is skipped without *)
(* aborting injection: it adds exactly one to the sheet-skipped count,     *)
(* changes nothing in the document, and the other entries are applied as   *)
(* they would be if the skipped entries were not in the file.              *)
C5_MissingSheetSkipped ==
    pc \in {"loop", "done"} =>
        LET ref == RunLoop(LoopStart, EntriesDoneWithSheet, lang)
        IN  /\ wb = ref.wb
            /\ applied = ref.applied
            /\ skipped_shape = ref.skipped_shape
            /\ fallback = ref.fallback
            /\ skipped_sheet = Len(EntriesDone) - Len(EntriesDoneWithSheet)
            /\ pc = "done" => idx = Len(entries) /\ Output = ref.wb

\* an entry for the missing sheet X, then a cell entry that is applied
C5_Witness ==
    /\ pc = "done"
    /\ lang = None
    /\ Len(entries) = 2
    /\ entries[1].sheet = Txt_X
    /\ AddressesCell(entries[2], Txt_S, Txt_A1)
    /\ skipped_sheet = 1
    /\ applied = 1
    /\ Output[Txt_S].cells[Txt_A1].value = Optional(entries[2].value)

\* a step of the loop over a shape entry whose sheet exists
ShapeEntryStep ==
    /\ pc = "loop" /\ pc' = "loop" /\ idx' = idx + 1
    /\ entries[idx'].sheet \in DOMAIN wb
    /\ entry_type(entries[idx']) = "shape"

\* the shapes of the sheet whose declared name is that of the entry
ShapesNamed(ws, e) ==
    {k \in 1..Len(ws.drawings) : ws.drawings[k].name = Optional(shape_name(e))}

(* C6: a shape entry is applied exactly when the addressed sheet has a     *)
(* shape whose declared name equals the entry's shape name: then the       *)
(* shape's visible text becomes the resolved value and the applied count   *)
(* is incremented; when no shape has that name the document is unchanged   *)
(* and the shape-skipped count is incremented.                             *)
C6_ShapeAppliedIffNamed ==
    [][ShapeEntryStep =>
          LET e == entries[idx']
          IN  IF ShapesNamed(wb[e.sheet], e) # {}
              THEN /\ applied' = applied + 1
                   /\ skipped_shape' = skipped_shape
                   /\ \E k \in ShapesNamed(wb[e.sheet], e) :
                         ShapeText(wb'[e.sheet].drawings[k]) = value'
              ELSE /\ wb' = wb
                   /\ applied' = applied
                   /\ skipped_shape' = skipped_shape + 1]_vars

\* the entry lacks the column of the requested language
LacksColumn(e, lg) ==
    IF lg = Optional(Lang_en) THEN ~e.en.present ELSE ~e.vi.present

----------------------------------------------------------------------------
(* Claims about the first column and the sheet name                        *)

\* [<sheet>]!<address>| followed by nothing or by another separator: a line
\* with a valid sheet and address whose first column is empty
HasEmptyFirstColumn(line) ==
    \E i \in 3..Len(line), p \in 1..Len(line) :
        /\ line[1] = "["
        /\ \A k \in 2..(i - 1) : line[k] # "]"
        /\ line[i] = "]"
        /\ line[i + 1] = "!"
        /\ p > i + 1
        /\ line[p] = "|"
        /\ p = Len(line) \/ line[p + 1] = "|"
        /\ LET a == SubSeq(line, i + 2, p - 1)
           IN  IsCellAddr(a) \/ IsShapeAddr(a) \/ IsNoteAddr(a)

\* the loop goes through one more line of the file
LineStep == pc = "parse" /\ pc' = "parse" /\ line_num' = line_num + 1

(* C16: original_text may be the empty string: every line with a valid     *)
(* sheet and address whose first column is empty, whether or not further   *)
(* columns follow, is accepted by the parser and yields an Entry whose      *)
(* original_text is the empty string.                                       *)
C16_EmptyOriginalAccepted ==
    [][(LineStep /\ HasEmptyFirstColumn(LineText(f[line_num']))) =>
          /\ Len(entries') = Len(entries) + 1
          /\ entries'[Len(entries')].value = <<>>]_vars

\* the position of the first ']' of a line that has one
FirstClose(line) ==
    CHOOSE i \in 1..Len(line) : line[i] = "]" /\ \A k \in 1..(i - 1) : line[k] # "]"

(* C17: for every line the parser accepts, the Entry's sheet is exactly the *)
(* text between the opening '[' and the first ']' that follows it; no       *)
(* parsed Entry has a sheet name containing ']'.                            *)
C17_SheetEndsAtFirstBracket ==
    (pc \in {"parse", "parsed"} /\ Len(entries) = Len(DataLinesRead)) =>
        \A i \in 1..Len(entries) :
            LET line == LineText(DataLinesRead[i])
            IN  /\ entries[i].sheet = SubSeq(line, 2, FirstClose(line) - 1)
                /\ \A k \in 1..Len(entries[i].sheet) : entries[i].sheet[k] # "]"

----------------------------------------------------------------------------
(* Claims about shapes and about the order of the entries                  *)

\* a step of the loop over a shape entry that _inject_shape reports as done
ShapeSuccessStep == ShapeEntryStep /\ applied' = applied + 1

(* C13: whenever shape injection reports success for a shape, the shape's   *)
(* text body afterwards has exactly one paragraph containing exactly one    *)
(* run, which is the original first run with its formatting attributes      *)
(* unchanged and the resolved value as its text, whatever the arrangement   *)
(* of runs across paragraphs was (paragraphs without runs and runs without  *)
(* a text element included).                                                *)
C13_CollapsedToOneRun ==
    [][ShapeSuccessStep =>
          LET e == entries[idx']
          IN  \E k \in ShapesNamed(wb[e.sheet], e) :
                 LET before == wb[e.sheet].drawings[k].txBody.paras
                     after == wb'[e.sheet].drawings[k].txBody.paras
                 IN  /\ HasRuns(before)
                     /\ after = <<<<Run(before[FirstRunPara(before)][1].rPr,
                                        Optional(value'))>>>>]_vars

\* entry i is the last entry of the file for its target
LastForTarget(i) ==
    \A j \in (i + 1)..Len(entries) :
        entries[j].sheet # entries[i].sheet \/ entries[j].coord # entries[i].coord

\* the target of entry e in workbook w carries text v
TargetCarries(w, e, v) ==
    IF entry_type(e) = "cell"
    THEN GetCell(w[e.sheet], e.coord).value = Optional(v)
    ELSE IF entry_type(e) = "note"
    THEN /\ GetCell(w[e.sheet], note_coord(e)).comment.present
         /\ GetCell(w[e.sheet], note_coord(e)).comment.text = v
    ELSE \A k \in ShapesNamed(Original[e.sheet], e) : ShapeText(w[e.sheet].drawings[k]) = v

(* C15: entries are applied in file order, so when several entries address *)
(* the same target (same sheet and the same cell, shape or note) the output *)
(* document carries the value resolved from the last such entry, for every  *)
(* target kind.                                                             *)
C15_LastEntryWins ==
    pc = "done" =>
        \A i \in 1..Len(entries) :
            (SheetInWorkbook(entries[i]) /\ LastForTarget(i)) =>
                TargetCarries(Output, entries[i], _pick_value(entries[i], lang)[1])

\* C15 for the cell and note targets only
LastEntryWinsOnCellsAndNotes ==
    pc = "done" =>
        \A i \in 1..Len(entries) :
            (SheetInWorkbook(entries[i]) /\ LastForTarget(i)
                /\ entry_type(entries[i]) # "shape") =>
                TargetCarries(Output, entries[i], _pick_value(entries[i], lang)[1])

----------------------------------------------------------------------------
(* The extractor: the workbook as load_workbook gives it                   *)

\* str.strip()
IsSpace(c) == c \in {" ", NL, CR}

RECURSIVE LStrip(_)
LStrip(s) == IF s # <<>> /\ IsSpace(Head(s)) THEN LStrip(Tail(s)) ELSE s

RECURSIVE RStripSpace(_)
RStripSpace(s) ==
    IF s # <<>> /\ IsSpace(s[Len(s)]) THEN RStripSpace(SubSeq(s, 1, Len(s) - 1)) ELSE s

Strip(s) == RStripSpace(LStrip(s))

\* a merged range
MergedRange(min_row, min_col, max_row, max_col) ==
    [min_row |-> min_row, min_col |-> min_col, max_row |-> max_row, max_col |-> max_col]

\* a worksheet with its merged ranges and the extent of its grid
MergedSheet(cells, drawings, merged, max_row, max_column) ==
    [cells |-> cells, drawings |-> drawings, merged |-> merged,
     max_row |-> max_row, max_column |-> max_column]

\* get_column_letter(col) and str(row), for the columns and rows of the grid
get_column_letter(col) == <<(<<"A", "B">>)[col]>>

RowDigits(row) == <<(<<"1", "2">>)[row]>>

cell_coord(col, row) == get_column_letter(col) \o RowDigits(row)

\* is_merged_slave taking the origin of a range for a slave too
is_merged_slave_anyMember(sheet, col, row) ==
    \E r \in sheet.merged :
        /\ r.min_row <= row /\ row <= r.max_row
        /\ r.min_col <= col /\ col <= r.max_col

\* the cell is in a merged range of which it is not the top-left origin
is_merged_slave(sheet, col, row) ==
    \E r \in sheet.merged :
        /\ r.min_row <= row /\ row <= r.max_row
        /\ r.min_col <= col /\ col <= r.max_col
        /\ (row # r.min_row \/ col # r.min_col)

\* the cells of the grid, row by row
GridOrder(ws) ==
    [i \in 1..(ws.max_row * ws.max_column) |->
        <<((i - 1) \div ws.max_column) + 1, ((i - 1) % ws.max_column) + 1>>]

\* the library's MergedCell: no value, no comment
MergedCell(c) == Cell(None, c.style, NoComment)

\* load_workbook: every cell of a merged range but its first is a MergedCell
bind_merged_cells(ws) ==
    [ws EXCEPT !.cells =
        [x \in DOMAIN ws.cells |->
            IF \E r \in ws.merged, row \in 1..ws.max_row, col \in 1..ws.max_column :
                  /\ x = cell_coord(col, row)
                  /\ r.min_row <= row /\ row <= r.max_row
                  /\ r.min_col <= col /\ col <= r.max_col
                  /\ (row # r.min_row \/ col # r.min_col)
            THEN MergedCell(ws.cells[x])
            ELSE ws.cells[x]]]

load_workbook(doc) == [sh \in DOMAIN doc |-> bind_merged_cells(doc[sh])]

----------------------------------------------------------------------------
(* The extractor: _extract_cells, _extract_shapes, _extract_notes          *)

\* what a line is emitted for, and the line: f'[{sheet_name}]!{addr}|{value}'
\* with value = text.replace('\n', '\\n')
Emit(sheet_name, addr, text) ==
    [sheet |-> sheet_name, coord |-> addr, text |-> text,
     line |-> LineHead(sheet_name, addr) \o EscapeNewlines(text)]

\* cell.value is None or str(cell.value).strip() == ''
CellIsEmpty(c) == ~c.value.present \/ Strip(c.value.text) = <<>>

_extract_cells(ws, sheet_name) ==
    LET Keep(rc) ==
            /\ ~is_merged_slave(ws, rc[2], rc[1])
            /\ ~CellIsEmpty(GetCell(ws, cell_coord(rc[2], rc[1])))
        kept == SelectSeq(GridOrder(ws), Keep)
    IN  [i \in 1..Len(kept) |->
            LET coord == cell_coord(kept[i][2], kept[i][1])
            IN  Emit(sheet_name, coord, GetCell(ws, coord).value.text)]

\* the identifier of a shape: its name stripped, else its id, else '?'
ShapeIdentifier(sp) ==
    LET nm == IF sp.name.present THEN Strip(sp.name.text) ELSE <<>>
    IN  IF nm # <<>> THEN nm
        ELSE IF sp.id # <<>> THEN sp.id
        ELSE <<"?">>

_extract_shapes(ws, sheet_name) ==
    LET all == [k \in 1..Len(ws.drawings) |-> k]
        Keep(k) == Strip(ShapeText(ws.drawings[k])) # <<>>
        kept == SelectSeq(all, Keep)
    IN  [i \in 1..Len(kept) |->
            Emit(sheet_name,
                 ShapePrefix \o ShapeIdentifier(ws.drawings[kept[i]]),
                 Strip(ShapeText(ws.drawings[kept[i]])))]

_extract_notes(ws, sheet_name) ==
    LET Keep(rc) ==
            LET c == GetCell(ws, cell_coord(rc[2], rc[1]))
            IN  c.comment.present /\ Strip(c.comment.text) # <<>>
        kept == SelectSeq(GridOrder(ws), Keep)
    IN  [i \in 1..Len(kept) |->
            LET coord == cell_coord(kept[i][2], kept[i][1])
            IN  Emit(sheet_name, NotePrefix \o coord,
                     Strip(GetCell(ws, coord).comment.text))]

\* the lines of the items, and what they were emitted for
LinesOf(items) == [i \in 1..Len(items) |-> items[i].line]

EmittedFor(items) ==
    [i \in 1..Len(items) |->
        [sheet |-> items[i].sheet, coord |-> items[i].coord, text |-> items[i].text]]

\* '# -- shapes: {name} --' and '# -- notes: {name} --'
ShapesSeparator(name) == <<"#", " ", "s", " ">> \o name

NotesSeparator(name) == <<"#", " ", "n", " ">> \o name

----------------------------------------------------------------------------
(* extract, then parse_txt on the file it wrote                            *)

\* wb.sheetnames: the sheets in workbook order
sheetnames(w) ==
    LET InW(sh) == sh \in DOMAIN w
    IN  SelectSeq(<<Txt_S, Txt_T>>, InW)

\* sheets = sheet_names if sheet_names else wb.sheetnames
sheets ==
    IF sheet_names.present /\ sheet_names.text # <<>>
    THEN sheet_names.text
    ELSE sheetnames(wb)

\* the header block: five comment lines and an empty line
HeaderLines ==
    <<<<"#", " ", "X">>, <<"#", " ", "S">>, <<"#", " ", "2">>, <<"#", " ", "e">>,
      <<"#", " ", "1">>, <<>>>>

\* the lines a text file gives when read in text mode: '\n', '\r' and '\r\n'
\* all end a line and are read as '\n'
ReadLines(chars) ==
    LET IsEnd(i) ==
            \/ chars[i] = NL
            \/ chars[i] = CR /\ ~(i < Len(chars) /\ chars[i + 1] = NL)
        ends == {i \in 1..Len(chars) : IsEnd(i)}
        EndNo(k) == CHOOSE e \in ends : Cardinality({x \in ends : x < e}) = k - 1
        StartNo(k) == IF k = 1 THEN 1 ELSE EndNo(k - 1) + 1
        Body(k) ==
            LET e == EndNo(k)
                last == IF chars[e] = NL /\ e > 1 /\ chars[e - 1] = CR THEN e - 2 ELSE e - 1
            IN  SubSeq(chars, StartNo(k), last)
        n == Cardinality(ends)
        rest == IF n = 0 THEN chars ELSE SubSeq(chars, EndNo(n) + 1, Len(chars))
    IN  [k \in 1..n |-> Body(k) \o <<NL>>] \o (IF rest = <<>> THEN <<>> ELSE <<rest>>)

\* f.write(line + '\n') for every line
WriteLines(ls) == Flatten([i \in 1..Len(ls) |-> ls[i] \o <<NL>>])

InExtractLoop == pc = "extract" /\ sheet_pos < Len(sheets)

\* lines 131-133
ExtSkipSheet ==
    /\ InExtractLoop
    /\ sheets[sheet_pos + 1] \notin DOMAIN wb
    /\ sheet_pos' = sheet_pos + 1
    /\ UNCHANGED <<pc, entries, parseVars, escVars, injVars, sheet_names,
                   include_shapes, include_notes, lines, emitted,
                   total_cells, total_shapes, total_notes>>

\* lines 135-156
ExtSheet ==
    /\ InExtractLoop
    /\ sheets[sheet_pos + 1] \in DOMAIN wb
    /\ LET name == sheets[sheet_pos + 1]
           ws == wb[name]
           cell_lines == _extract_cells(ws, name)
           shape_lines == IF include_shapes THEN _extract_shapes(ws, name) ELSE <<>>
           note_lines == IF include_notes THEN _extract_notes(ws, name) ELSE <<>>
       IN  /\ lines' = lines \o LinesOf(cell_lines)
                   \o (IF shape_lines # <<>>
                       THEN <<ShapesSeparator(name)>> \o LinesOf(shape_lines) ELSE <<>>)
                   \o (IF note_lines # <<>>
                       THEN <<NotesSeparator(name)>> \o LinesOf(note_lines) ELSE <<>>)
           /\ emitted' = emitted \o EmittedFor(cell_lines) \o EmittedFor(shape_lines)
                                 \o EmittedFor(note_lines)
           /\ total_cells' = total_cells + Len(cell_lines)
           /\ total_shapes' = total_shapes + Len(shape_lines)
           /\ total_notes' = total_notes + Len(note_lines)
    /\ sheet_pos' = sheet_pos + 1
    /\ UNCHANGED <<pc, entries, parseVars, escVars, injVars, sheet_names,
                   include_shapes, include_notes>>

\* lines 158-175: the file is written; f is the file as a reader gets it
ExtWrite ==
    /\ pc = "extract"
    /\ sheet_pos = Len(sheets)
    /\ f' = ReadLines(WriteLines(HeaderLines \o lines))
    /\ pc' = "written"
    /\ UNCHANGED <<entries, line_num, escVars, injVars, extVars>>

\* parse_txt on the file extract wrote
ExtParse ==
    /\ pc = "written"
    /\ entries' = parse_txt(f)
    /\ line_num' = Len(f)
    /\ pc' = "parsed"
    /\ UNCHANGED <<f, escVars, injVars, extVars>>

ExtNext == ExtSkipSheet \/ ExtSheet \/ ExtWrite \/ ExtParse

----------------------------------------------------------------------------
(* extract: the calls tried                                                *)

Txt_A2 == <<"A", "2">>

\* the values of cell A1: none, blank, plain, with a separator, with a
\* newline, with a carriage return
A1Values ==
    {None, Optional(<<" ">>), Optional(<<"x">>), Optional(<<"a", "|", "b">>),
     Optional(<<"h", NL, "k">>), Optional(<<"x", CR, "y">>)}

\* the sets of merged ranges: none, A1:B1, A1:A2, A1:B2, B1:B2, and the
\* overlapping A1:B1 with B1:B2
MergedSets ==
    {{}, {MergedRange(1, 1, 1, 2)}, {MergedRange(1, 1, 2, 1)}, {MergedRange(1, 1, 2, 2)},
     {MergedRange(1, 2, 2, 2)}, {MergedRange(1, 1, 1, 2), MergedRange(1, 2, 2, 2)}}

\* the comments of A1 and B1
CommentSets ==
    {<<NoComment, NoComment>>,
     <<Comment(<<"c">>, <<"z">>), NoComment>>,
     <<Comment(<<" ", "c", NL>>, <<"z">>), Comment(<<" ">>, <<>>)>>}

OneRunBody(t) == TxBody(<<<<Run("r1", Optional(t))>>>>)

\* the shapes of the sheet: none; a named text box; an unnamed shape with a
\* text and a named one without; a shape with a blank name and no id
DrawingSets ==
    {<<>>,
     <<Shape(Optional(Txt_TB), <<"1">>, OneRunBody(<<"h">>))>>,
     <<Shape(None, <<"7">>, OneRunBody(<<" ", "h">>)), Shape(Optional(Txt_TB), <<"1">>, NoTxBody)>>,
     <<Shape(Optional(<<" ">>), <<>>, OneRunBody(<<"h">>))>>}

\* a document of two sheets, as stored: S with a 2 x 2 grid, T with one cell
ExtDoc(a1, b1, a2, merged, comments, drawings) ==
    [sh \in {Txt_S, Txt_T} |->
        IF sh = Txt_S
        THEN MergedSheet(
                 [c \in {Txt_A1, Txt_B1, Txt_A2, Txt_B2} |->
                     IF c = Txt_A1 THEN Cell(a1, "plain", comments[1])
                     ELSE IF c = Txt_B1 THEN Cell(b1, "plain", comments[2])
                     ELSE IF c = Txt_A2 THEN Cell(a2, "plain", NoComment)
                     ELSE EmptyCell],
                 drawings, merged, 2, 2)
        ELSE MergedSheet([c \in {Txt_A1} |-> Cell(Optional(<<"t">>), "plain", NoComment)],
                         <<>>, {}, 1, 1)]

ExtDocs ==
    {ExtDoc(a1, b1, a2, m, c, d) :
        a1 \in A1Values, b1 \in {None, Optional(<<"w">>)}, a2 \in {None, Optional(<<"y">>)},
        m \in MergedSets, c \in CommentSets, d \in DrawingSets}

\* the sheet_names arguments: None, one sheet, a list with a missing sheet
SheetNamesArgs == {None, Optional(<<Txt_S>>), Optional(<<Txt_X, Txt_T>>)}

ExtInit ==
    /\ pc = "extract"
    /\ wb \in {load_workbook(d) : d \in ExtDocs}
    /\ sheet_names \in SheetNamesArgs
    /\ include_shapes \in BOOLEAN
    /\ include_notes \in BOOLEAN
    /\ sheet_pos = 0 /\ lines = <<>> /\ emitted = <<>>
    /\ total_cells = 0 /\ total_shapes = 0 /\ total_notes = 0
    /\ ParseIdle
    /\ EscIdle
    /\ fs = <<>> /\ fs0 = <<>> /\ io = <<>>
    /\ output_path = None /\ lang = None /\ exc = ""
    /\ idx = 0
    /\ applied = 0 /\ skipped_sheet = 0 /\ skipped_shape = 0 /\ fallback = 0
    /\ value = <<>> /\ used_fallback = FALSE

SpecExtract == ExtInit /\ [][ExtNext]_vars

----------------------------------------------------------------------------
(* Claims about extract                                                    *)

(* C11: every data line written by extract (cell, shape or note) is        *)
(* accepted by parse_txt and yields exactly one Entry whose sheet, address *)
(* and original_text are the sheet name, address and text the line was     *)
(* emitted for; parsing an extraction yields as many Entries as cells,     *)
(* shapes and notes were extracted.                                        *)
C11_ExtractedLinesParseBack ==
    pc = "parsed" =>
        /\ Len(entries) = Len(emitted)
        /\ Len(entries) = total_cells + total_shapes + total_notes
        /\ \A i \in 1..Len(entries) :
              i <= Len(emitted) =>
                  /\ entries[i].sheet = emitted[i].sheet
                  /\ entries[i].coord = emitted[i].coord
                  /\ entries[i].value = emitted[i].text

\* the sheets extract has gone through
SheetsExtracted == {sheets[i] : i \in 1..sheet_pos} \cap DOMAIN wb

\* the cell at (col, row) is in range r / is the top-left cell of range r
InRange(r, col, row) ==
    /\ r.min_row <= row /\ row <= r.max_row
    /\ r.min_col <= col /\ col <= r.max_col

IsOriginOf(r, col, row) == row = r.min_row /\ col = r.min_col

\* a cell line was emitted for this coordinate of this sheet
CellLineEmitted(sh, coord) ==
    \E i \in 1..Len(emitted) : emitted[i].sheet = sh /\ emitted[i].coord = coord

(* C12: for any sheet and any set of merged ranges, extraction emits no    *)
(* cell line for a coordinate that is a non-origin member of some merged   *)
(* range, and it emits a cell line for the top-left origin of every merged *)
(* range whose value is non-empty.                                         *)
C12_MergedCellsExtraction ==
    pc \in {"extract", "written", "parsed"} =>
        \A sh \in SheetsExtracted :
            \A row \in 1..wb[sh].max_row, col \in 1..wb[sh].max_column :
                \A r \in wb[sh].merged :
                    /\ (InRange(r, col, row) /\ ~IsOriginOf(r, col, row)) =>
                           ~CellLineEmitted(sh, cell_coord(col, row))
                    /\ (IsOriginOf(r, col, row)
                          /\ ~CellIsEmpty(GetCell(wb[sh], cell_coord(col, row)))) =>
                           CellLineEmitted(sh, cell_coord(col, row))

\* A1:B1 merged with a text at A1, a text at A2: A1 and A2 are extracted,
\* B1 is not
C12_Witness ==
    /\ pc = "parsed"
    /\ wb[Txt_S].merged = {MergedRange(1, 1, 1, 2)}
    /\ wb[Txt_S].cells[Txt_A1].value = Optional(<<"x">>)
    /\ wb[Txt_S].cells[Txt_A2].value = Optional(<<"y">>)
    /\ CellLineEmitted(Txt_S, Txt_A1)
    /\ CellLineEmitted(Txt_S, Txt_A2)
    /\ ~CellLineEmitted(Txt_S, Txt_B1)
    /\ \E i \in 1..Len(entries) : entries[i].coord = Txt_A1 /\ entries[i].value = <<"x">>

----------------------------------------------------------------------------
(* The identifier of a shape on extraction and on injection                *)

\* the shapes of the sheet with no declared name for which the extractor
\* emits the identifier of the entry, their numeric id
UnnamedShapesWithId(ws, e) ==
    {k \in 1..Len(ws.drawings) :
        /\ ~ws.drawings[k].name.present
        /\ ws.drawings[k].id # <<>>
        /\ ShapeIdentifier(ws.drawings[k]) = shape_name(e)}

(* C14: a shape address is matched against a shape's declared name and, for *)
(* a shape with no name set, against its numeric id: a shape entry carrying *)
(* the identifier the extractor emits for an unnamed shape (its numeric id) *)
(* targets that same shape on injection.                                    *)
C14_UnnamedShapeMatchedById ==
    [][(ShapeEntryStep /\ ShapesNamed(wb[entries[idx'].sheet], entries[idx']) = {}
                       /\ UnnamedShapesWithId(wb[entries[idx'].sheet], entries[idx']) # {}) =>
          LET e == entries[idx']
          IN  /\ applied' = applied + 1
              /\ skipped_shape' = skipped_shape
              /\ \E k \in UnnamedShapesWithId(wb[e.sheet], e) :
                    ShapeText(wb'[e.sheet].drawings[k]) = value']_vars

============================================================================
